---- MODULE Spec2Model ----
(***************************************************************************)
(* Model of unique_ptr<T, deleter> (src/smart-pointer/smart_pointer.hpp).  *)
(*                                                                         *)
(* A handle is a slot of Handles; a raw pointer is a number, 0 being       *)
(* nullptr.  The deleter is an instrumented one: it counts, per pointer it  *)
(* is given, the calls of operator_delete (nullptr included: the code      *)
(* calls it unconditionally).                                              *)
(***************************************************************************)
EXTENDS Integers, Sequences, FiniteSets, TLC

MaxHandles == 2
MaxRefs    == 2
MaxResets  == 1

Handles == 1..MaxHandles
Refs    == 1..MaxRefs
nullptr == 0
Ptrs    == {nullptr} \cup Refs

VARIABLES
    status,            \* handle -> "unborn" | "live" | "dead"
    ptr_resource,      \* handle -> the handle's ptr_resource field
    delCalls,          \* pointer -> the number of calls operator_delete(pointer) so far
    nResets,           \* the number of successful resets so far
    last,              \* the last operation: its name, its handle, what it returned or threw
    adopted,           \* the pointers ever given to a constructor or a successful reset
    orig,              \* handle -> the pointer it was constructed with while no
                       \*   release, reset, move or swap has touched it; else nullptr
    resetArgsUnowned,  \* every successful reset so far was given a pointer that no
                       \*   live handle held and that had not been destroyed
    relBy,             \* the pairs <<h, R>>: h.release() has returned R # nullptr
    regiven            \* the pointers given to a successful reset after a release returned them

\* Kept only by SpecContract, the runs in which every reset is given a pointer
\* nobody holds:
VARIABLES
    mv,                \* the last d = std::move(s) between two handles, while nothing but
                       \*   their destructors has run since: d, s, what s held (R) and
                       \*   what d held (old)
    released           \* the pointers release() has ever returned, nullptr apart

contractVars == <<mv, released>>

\* Kept only by SpecReset, the runs in which reset is taken statement by statement:
VARIABLES
    rs                 \* the reset in progress or just returned: where it stands (pc),
                       \*   its handle, its argument, what the handle held when it was
                       \*   called (old) and the deleter calls on old there were then (cnt)

resetVars == <<rs>>

\* Kept only by SpecBoth, the runs of unique_ptr<T, unique_ptr_deleter<T>> side by
\* side with the second class of the file, unique_ptr<T>:
VARIABLES
    glog,              \* the objects unique_ptr_deleter has deleted, in order
    sptr,              \* handle -> ptr_resource of the unique_ptr<T> object
    slog,              \* the objects unique_ptr<T> has deleted, in order
    sout               \* what the last operation of unique_ptr<T> returned or threw

bothVars == <<glog, sptr, slog, sout>>

ghosts == <<contractVars, resetVars, bothVars>>

vars == <<status, ptr_resource, delCalls, nResets, last, adopted, orig, resetArgsUnowned,
          relBy, regiven, mv, released, rs, glog, sptr, slog, sout>>

NoReset == [pc |-> "idle", h |-> 0, arg |-> nullptr, old |-> nullptr, cnt |-> 0]

NoMove == [d |-> 0, s |-> 0, R |-> nullptr, old |-> nullptr]

Live == {h \in Handles : status[h] = "live"}

Op(op, h, ret, err) == [op |-> op, h |-> h, ret |-> ret, err |-> err]

\* ---- the deleter and its call counts ----

operator_delete(calls, r) == [calls EXCEPT ![r] = @ + 1]

Destroyed(r) == delCalls[r] > 0

Holders(r) == {h \in Live : ptr_resource[h] = r}

\* Handle slots are taken in order, and "new T" hands out the pointers in
\* order: handles and fresh pointers are interchangeable, so one
\* representative of each renaming is explored.
NextSlot(h) == status[h] = "unborn" /\ \A g \in Handles : g < h => status[g] # "unborn"

Fresh(r) == r \in Refs \ adopted /\ \A q \in Refs : q < r => q \in adopted

\* ---- observers ----

get(h) == ptr_resource[h]

boolInverted(h) == ptr_resource[h] = nullptr

\* explicit operator bool(): return this->ptr_resource, a T* converted to bool
operator_bool(h) == ptr_resource[h] # nullptr

\* ---- std::swap(ptr_resource, resource_ptr.ptr_resource) ----

swapCopies(p, a, b) == [p EXCEPT ![a] = p[b]]

swapNothing(p, a, b) == p

swapMovesOut(p, a, b) == [[p EXCEPT ![a] = p[b]] EXCEPT ![b] = nullptr]

swap(p, a, b) == [p EXCEPT ![a] = p[b], ![b] = p[a]]

Init ==
    /\ status = [h \in Handles |-> "unborn"]
    /\ ptr_resource = [h \in Handles |-> nullptr]
    /\ delCalls = [p \in Ptrs |-> 0]
    /\ nResets = 0
    /\ last = Op("none", 0, nullptr, "none")
    /\ adopted = {}
    /\ orig = [h \in Handles |-> nullptr]
    /\ resetArgsUnowned = TRUE
    /\ relBy = {}
    /\ regiven = {}
    /\ mv = NoMove
    /\ released = {}
    /\ rs = NoReset
    /\ glog = <<>>
    /\ sptr = [h \in Handles |-> nullptr]
    /\ slog = <<>>
    /\ sout = [ret |-> nullptr, err |-> "none"]

\* explicit unique_ptr(T* raw_resource): raw_resource is fresh and non-null
Construct(h, r) ==
    /\ NextSlot(h)
    /\ Fresh(r)
    /\ status' = [status EXCEPT ![h] = "live"]
    /\ ptr_resource' = [ptr_resource EXCEPT ![h] = r]
    /\ adopted' = adopted \cup {r}
    /\ orig' = [orig EXCEPT ![h] = r]
    /\ last' = Op("ctor", h, nullptr, "none")
    /\ UNCHANGED <<delCalls, nResets, resetArgsUnowned, relBy, regiven>>

\* unique_ptr(std::nullptr_t)
ConstructNull(h) ==
    /\ NextSlot(h)
    /\ status' = [status EXCEPT ![h] = "live"]
    /\ ptr_resource' = [ptr_resource EXCEPT ![h] = nullptr]
    /\ last' = Op("ctor_null", h, nullptr, "none")
    /\ UNCHANGED <<delCalls, nResets, adopted, orig, resetArgsUnowned, relBy, regiven>>

\* unique_ptr()
ConstructDefault(h) ==
    /\ NextSlot(h)
    /\ status' = [status EXCEPT ![h] = "live"]
    /\ ptr_resource' = [ptr_resource EXCEPT ![h] = nullptr]
    /\ last' = Op("ctor_default", h, nullptr, "none")
    /\ UNCHANGED <<delCalls, nResets, adopted, orig, resetArgsUnowned, relBy, regiven>>

\* What the end of h's lifetime leaves: the object and its field are gone (the
\* slot reads nullptr from then on), and so are the releases remembered for h.
Gone(h) ==
    /\ ptr_resource' = [ptr_resource EXCEPT ![h] = nullptr]
    /\ relBy' = {pr \in relBy : pr[1] # h}
    /\ regiven' = {r \in regiven : \E pr \in relBy : pr[1] # h /\ pr[2] = r}
    /\ UNCHANGED <<adopted, orig, resetArgsUnowned>>

DestroyGuarded(h) ==
    /\ status[h] = "live"
    /\ status' = [status EXCEPT ![h] = "dead"]
    /\ delCalls' = IF ptr_resource[h] = nullptr THEN delCalls
                 ELSE operator_delete(delCalls, ptr_resource[h])
    /\ last' = Op("dtor", h, nullptr, "none")
    /\ Gone(h)
    /\ UNCHANGED nResets

DestroyNoDelete(h) ==
    /\ status[h] = "live"
    /\ status' = [status EXCEPT ![h] = "dead"]
    /\ last' = Op("dtor", h, nullptr, "none")
    /\ delCalls' = delCalls
    /\ Gone(h)
    /\ UNCHANGED nResets

\* ~unique_ptr(): operator_delete(ptr_resource), whatever ptr_resource is
Destroy(h) ==
    /\ status[h] = "live"
    /\ status' = [status EXCEPT ![h] = "dead"]
    /\ delCalls' = operator_delete(delCalls, ptr_resource[h])
    /\ last' = Op("dtor", h, nullptr, "none")
    /\ Gone(h)
    /\ UNCHANGED nResets

MoveConstructCopy(h, o) ==
    /\ NextSlot(h)
    /\ status[o] = "live"
    /\ status' = [status EXCEPT ![h] = "live"]
    /\ ptr_resource' = [ptr_resource EXCEPT ![h] = ptr_resource[o]]
    /\ orig' = [orig EXCEPT ![h] = nullptr, ![o] = nullptr]
    /\ last' = Op("move_ctor", h, nullptr, "none")
    /\ UNCHANGED <<delCalls, nResets, adopted, resetArgsUnowned, relBy, regiven>>

\* unique_ptr(unique_ptr&& move): ptr_resource starts as nullptr (its default
\* member initializer), then move.swap(*this)
MoveConstruct(h, o) ==
    /\ NextSlot(h)
    /\ status[o] = "live"
    /\ status' = [status EXCEPT ![h] = "live"]
    /\ ptr_resource' = swap([ptr_resource EXCEPT ![h] = nullptr], o, h)
    /\ orig' = [orig EXCEPT ![h] = nullptr, ![o] = nullptr]
    /\ last' = Op("move_ctor", h, nullptr, "none")
    /\ UNCHANGED <<delCalls, nResets, adopted, resetArgsUnowned, relBy, regiven>>

MoveAssignOverwrites(d, s) ==
    /\ status[d] = "live"
    /\ status[s] = "live"
    /\ ptr_resource' = IF d = s THEN ptr_resource
                       ELSE [ptr_resource EXCEPT ![d] = ptr_resource[s], ![s] = nullptr]
    /\ orig' = [orig EXCEPT ![d] = nullptr, ![s] = nullptr]
    /\ last' = Op("move_assign", d, nullptr, "none")
    /\ UNCHANGED <<status, delCalls, nResets, adopted, resetArgsUnowned, relBy, regiven>>

\* operator=(unique_ptr&& move): move.swap(*this); d = std::move(s), d = s included
MoveAssign(d, s) ==
    /\ status[d] = "live"
    /\ status[s] = "live"
    /\ ptr_resource' = swap(ptr_resource, s, d)
    /\ orig' = [orig EXCEPT ![d] = nullptr, ![s] = nullptr]
    /\ last' = Op("move_assign", d, nullptr, "none")
    /\ UNCHANGED <<status, delCalls, nResets, adopted, resetArgsUnowned, relBy, regiven>>

\* a.swap(b), a = b included
Swap(a, b) ==
    /\ status[a] = "live"
    /\ status[b] = "live"
    /\ ptr_resource' = swap(ptr_resource, a, b)
    /\ orig' = [orig EXCEPT ![a] = nullptr, ![b] = nullptr]
    /\ last' = Op("swap", a, nullptr, "none")
    /\ UNCHANGED <<status, delCalls, nResets, adopted, resetArgsUnowned, relBy, regiven>>

ReleaseKeeps(h) ==
    /\ status[h] = "live"
    /\ orig' = [orig EXCEPT ![h] = nullptr]
    /\ relBy' = IF ptr_resource[h] = nullptr THEN relBy
                ELSE relBy \cup {<<h, ptr_resource[h]>>}
    /\ last' = Op("release", h, ptr_resource[h], "none")
    /\ UNCHANGED <<status, ptr_resource, delCalls, nResets, adopted, resetArgsUnowned, regiven>>

ReleaseDeletes(h) ==
    /\ status[h] = "live"
    /\ ptr_resource' = [ptr_resource EXCEPT ![h] = nullptr]
    /\ delCalls' = operator_delete(delCalls, ptr_resource[h])
    /\ orig' = [orig EXCEPT ![h] = nullptr]
    /\ relBy' = IF ptr_resource[h] = nullptr THEN relBy
                ELSE relBy \cup {<<h, ptr_resource[h]>>}
    /\ last' = Op("release", h, ptr_resource[h], "none")
    /\ UNCHANGED <<status, nResets, adopted, resetArgsUnowned, regiven>>

\* release(): return std::exchange(ptr_resource, nullptr)
Release(h) ==
    /\ status[h] = "live"
    /\ ptr_resource' = [ptr_resource EXCEPT ![h] = nullptr]
    /\ orig' = [orig EXCEPT ![h] = nullptr]
    /\ relBy' = IF ptr_resource[h] = nullptr THEN relBy
                ELSE relBy \cup {<<h, ptr_resource[h]>>}
    /\ last' = Op("release", h, ptr_resource[h], "none")
    /\ UNCHANGED <<status, delCalls, nResets, adopted, resetArgsUnowned, regiven>>

\* what a successful reset(r) records about its argument
ResetBookkeeping(h, r) ==
    /\ adopted' = adopted \cup {r}
    /\ orig' = [orig EXCEPT ![h] = nullptr]
    /\ resetArgsUnowned' = (resetArgsUnowned /\ Holders(r) = {} /\ ~Destroyed(r))
    /\ regiven' = IF \E pr \in relBy : pr[2] = r THEN regiven \cup {r} ELSE regiven
    /\ nResets' = nResets + 1
    /\ UNCHANGED <<status, relBy>>

ResetThrows(h) ==
    /\ last' = Op("reset", h, nullptr, "invalid_argument")
    /\ UNCHANGED <<status, ptr_resource, delCalls, nResets, adopted, orig, resetArgsUnowned, relBy, regiven>>

ResetNoAdopt(h, r) ==
    /\ status[h] = "live"
    /\ r \in Ptrs
    /\ IF r = nullptr
       THEN ResetThrows(h)
       ELSE /\ nResets < MaxResets
            /\ r \in adopted \/ Fresh(r)
            /\ delCalls' = operator_delete(delCalls, ptr_resource[h])
            /\ ptr_resource' = [ptr_resource EXCEPT ![h] = nullptr]
            /\ last' = Op("reset", h, nullptr, "none")
            /\ ResetBookkeeping(h, r)

ResetDeletesNew(h, r) ==
    /\ status[h] = "live"
    /\ r \in Ptrs
    /\ IF r = nullptr
       THEN ResetThrows(h)
       ELSE /\ nResets < MaxResets
            /\ r \in adopted \/ Fresh(r)
            /\ delCalls' = operator_delete(delCalls, r)
            /\ ptr_resource' = [ptr_resource EXCEPT ![h] = r]
            /\ last' = Op("reset", h, nullptr, "none")
            /\ ResetBookkeeping(h, r)

ResetUnchecked(h, r) ==
    /\ status[h] = "live"
    /\ r \in Ptrs
    /\ nResets < MaxResets
    /\ r = nullptr \/ r \in adopted \/ Fresh(r)
    /\ delCalls' = operator_delete(delCalls, ptr_resource[h])
    /\ ptr_resource' = [ptr_resource EXCEPT ![h] = r]
    /\ last' = Op("reset", h, nullptr, "none")
    /\ ResetBookkeeping(h, r)

\* reset(T* resource_ptr): throw on nullptr before anything else; otherwise
\* operator_delete(ptr_resource), ptr_resource = nullptr, std::swap with the argument
Reset(h, r) ==
    /\ status[h] = "live"
    /\ r \in Ptrs
    /\ IF r = nullptr
       THEN ResetThrows(h)
       ELSE /\ nResets < MaxResets
            /\ r \in adopted \/ Fresh(r)
            /\ delCalls' = operator_delete(delCalls, ptr_resource[h])
            /\ ptr_resource' = [ptr_resource EXCEPT ![h] = r]
            /\ last' = Op("reset", h, nullptr, "none")
            /\ ResetBookkeeping(h, r)

Next ==
    \/ \E h \in Handles, r \in Refs : Construct(h, r) /\ UNCHANGED ghosts
    \/ \E h \in Handles : ConstructNull(h) /\ UNCHANGED ghosts
    \/ \E h \in Handles : ConstructDefault(h) /\ UNCHANGED ghosts
    \/ \E h \in Handles, o \in Handles : MoveConstruct(h, o) /\ UNCHANGED ghosts
    \/ \E d \in Handles, s \in Handles : MoveAssign(d, s) /\ UNCHANGED ghosts
    \/ \E a \in Handles, b \in Handles : Swap(a, b) /\ UNCHANGED ghosts
    \/ \E h \in Handles : Release(h) /\ UNCHANGED ghosts
    \/ \E h \in Handles, r \in Ptrs : Reset(h, r) /\ UNCHANGED ghosts
    \/ \E h \in Handles : Destroy(h) /\ UNCHANGED ghosts

Spec == Init /\ [][Next]_vars

\* ---- the runs that respect the contract of reset ----

\* reset's argument is nullptr (it throws) or a pointer that no live handle
\* holds and that has not been destroyed
Unowned(r) == r = nullptr \/ (Holders(r) = {} /\ ~Destroyed(r))

\* mv after the destructor of h: it stays while h is one of the two handles of
\* the move and the other one is still to be destroyed
MvAfterDtor(h) ==
    IF h \in {mv.d, mv.s} /\ \E g \in {mv.d, mv.s} \ {h} : status[g] = "live"
    THEN mv ELSE NoMove

ContractNext ==
    \/ \E h \in Handles, r \in Refs :
          Construct(h, r) /\ mv' = NoMove /\ UNCHANGED released /\ UNCHANGED <<resetVars, bothVars>>
    \/ \E h \in Handles :
          ConstructNull(h) /\ mv' = NoMove /\ UNCHANGED released /\ UNCHANGED <<resetVars, bothVars>>
    \/ \E h \in Handles :
          ConstructDefault(h) /\ mv' = NoMove /\ UNCHANGED released /\ UNCHANGED <<resetVars, bothVars>>
    \/ \E h \in Handles, o \in Handles :
          MoveConstruct(h, o) /\ mv' = NoMove /\ UNCHANGED released /\ UNCHANGED <<resetVars, bothVars>>
    \/ \E d \in Handles, s \in Handles :
          /\ MoveAssign(d, s)
          /\ mv' = IF d = s THEN NoMove
                   ELSE [d |-> d, s |-> s, R |-> ptr_resource[s], old |-> ptr_resource[d]]
          /\ UNCHANGED released /\ UNCHANGED <<resetVars, bothVars>>
    \/ \E a \in Handles, b \in Handles :
          Swap(a, b) /\ mv' = NoMove /\ UNCHANGED released /\ UNCHANGED <<resetVars, bothVars>>
    \/ \E h \in Handles :
          /\ Release(h)
          /\ mv' = NoMove
          /\ released' = released \cup ({ptr_resource[h]} \ {nullptr})
          /\ UNCHANGED <<resetVars, bothVars>>
    \/ \E h \in Handles, r \in Ptrs :
          Unowned(r) /\ Reset(h, r) /\ mv' = NoMove /\ UNCHANGED released /\ UNCHANGED <<resetVars, bothVars>>
    \/ \E h \in Handles :
          Destroy(h) /\ mv' = MvAfterDtor(h) /\ UNCHANGED released /\ UNCHANGED <<resetVars, bothVars>>

SpecContract == Init /\ [][ContractNext]_vars

TypeOK ==
    /\ status \in [Handles -> {"unborn", "live", "dead"}]
    /\ ptr_resource \in [Handles -> Ptrs]
    /\ adopted \subseteq Refs
    /\ resetArgsUnowned \in BOOLEAN

\* ---- reset, statement by statement ----

ResetCallAdoptsFirst(h, r) ==
    /\ rs.pc \in {"idle", "done"}
    /\ status[h] = "live"
    /\ r \in Ptrs
    /\ IF r = nullptr
       THEN ResetThrows(h) /\ rs' = NoReset
       ELSE /\ nResets < MaxResets
            /\ r \in adopted \/ Fresh(r)
            /\ ptr_resource' = [ptr_resource EXCEPT ![h] = r]
            /\ rs' = [pc |-> "deleted", h |-> h, arg |-> r,
                      old |-> ptr_resource[h], cnt |-> delCalls[ptr_resource[h]]]
            /\ ResetBookkeeping(h, r)
            /\ UNCHANGED <<delCalls, last>>

\* the call reset(r) up to line 74: the nullptr check, then operator_delete(ptr_resource)
ResetCall(h, r) ==
    /\ rs.pc \in {"idle", "done"}
    /\ status[h] = "live"
    /\ r \in Ptrs
    /\ IF r = nullptr
       THEN ResetThrows(h) /\ rs' = NoReset
       ELSE /\ nResets < MaxResets
            /\ r \in adopted \/ Fresh(r)
            /\ delCalls' = operator_delete(delCalls, ptr_resource[h])
            /\ rs' = [pc |-> "deleted", h |-> h, arg |-> r,
                      old |-> ptr_resource[h], cnt |-> delCalls[ptr_resource[h]]]
            /\ ResetBookkeeping(h, r)
            /\ UNCHANGED <<ptr_resource, last>>

\* line 76: ptr_resource = nullptr
ResetClear ==
    /\ rs.pc = "deleted"
    /\ ptr_resource' = [ptr_resource EXCEPT ![rs.h] = nullptr]
    /\ rs' = [rs EXCEPT !.pc = "cleared"]
    /\ UNCHANGED <<status, delCalls, nResets, last, adopted, orig, resetArgsUnowned,
                   relBy, regiven>>

\* line 78: std::swap(ptr_resource, resource_ptr), and the return
ResetAdopt ==
    /\ rs.pc = "cleared"
    /\ ptr_resource' = [ptr_resource EXCEPT ![rs.h] = rs.arg]
    /\ last' = Op("reset", rs.h, nullptr, "none")
    /\ rs' = [rs EXCEPT !.pc = "done"]
    /\ UNCHANGED <<status, delCalls, nResets, adopted, orig, resetArgsUnowned,
                   relBy, regiven>>

\* no other operation runs inside a reset
Outside ==
    rs.pc \in {"idle", "done"} /\ rs' = NoReset /\ UNCHANGED <<contractVars, bothVars>>

ResetNext ==
    \/ \E h \in Handles, r \in Refs : Construct(h, r) /\ Outside
    \/ \E h \in Handles : ConstructNull(h) /\ Outside
    \/ \E h \in Handles : Release(h) /\ Outside
    \/ \E h \in Handles : Destroy(h) /\ Outside
    \/ \E h \in Handles, r \in Ptrs :
          ResetCall(h, r) /\ UNCHANGED <<contractVars, bothVars>>
    \/ ResetClear /\ UNCHANGED <<contractVars, bothVars>>
    \/ ResetAdopt /\ UNCHANGED <<contractVars, bothVars>>

SpecReset == Init /\ [][ResetNext]_vars

\* ---- unique_ptr<T, unique_ptr_deleter<T>> beside unique_ptr<T> ----

\* get() const: return ptr_resource
Get(h) ==
    /\ status[h] = "live"
    /\ last' = Op("get", h, get(h), "none")
    /\ UNCHANGED <<status, ptr_resource, delCalls, nResets, adopted, orig,
                   resetArgsUnowned, relBy, regiven>>

\* "delete p": nothing for nullptr, else the object is destroyed
delete(log, p) == IF p = nullptr THEN log ELSE Append(log, p)

\* unique_ptr_deleter::operator(): delete resource, for the call of
\* operator_delete the step makes, if it makes one
DefaultDeleter ==
    LET called == {p \in Ptrs : delCalls'[p] > delCalls[p]}
    IN  glog' = IF called = {} THEN glog ELSE delete(glog, CHOOSE p \in called : TRUE)

Out(ret, err) == [ret |-> ret, err |-> err]

\* unique_ptr<T>::unique_ptr(T* raw_resource)
S_Construct(h, r) ==
    /\ sptr' = [sptr EXCEPT ![h] = r]
    /\ sout' = Out(nullptr, "none")
    /\ UNCHANGED slog

\* unique_ptr<T>::unique_ptr(std::nullptr_t)
S_ConstructNull(h) ==
    /\ sptr' = [sptr EXCEPT ![h] = nullptr]
    /\ sout' = Out(nullptr, "none")
    /\ UNCHANGED slog

\* unique_ptr<T>::~unique_ptr(): delete ptr_resource; the slot reads nullptr afterwards
S_Destroy(h) ==
    /\ slog' = delete(slog, sptr[h])
    /\ sptr' = [sptr EXCEPT ![h] = nullptr]
    /\ sout' = Out(nullptr, "none")

\* unique_ptr<T>::release()
S_Release(h) ==
    /\ sptr' = [sptr EXCEPT ![h] = nullptr]
    /\ sout' = Out(sptr[h], "none")
    /\ UNCHANGED slog

\* unique_ptr<T>::get()
S_get(h) == sptr[h]

S_Get(h) ==
    /\ sout' = Out(S_get(h), "none")
    /\ UNCHANGED <<sptr, slog>>

S_ResetSilentOnNull(h, r) ==
    IF r = nullptr
    THEN sout' = Out(nullptr, "none") /\ UNCHANGED <<sptr, slog>>
    ELSE /\ slog' = delete(slog, sptr[h])
         /\ sptr' = [sptr EXCEPT ![h] = r]
         /\ sout' = Out(nullptr, "none")

\* unique_ptr<T>::reset(T* resource_ptr)
S_Reset(h, r) ==
    IF r = nullptr
    THEN sout' = Out(nullptr, "invalid_argument") /\ UNCHANGED <<sptr, slog>>
    ELSE /\ slog' = delete(slog, sptr[h])
         /\ sptr' = [sptr EXCEPT ![h] = r]
         /\ sout' = Out(nullptr, "none")

\* the same operation on both, on the same input; the pointers given to reset
\* are ones nobody holds (deleting an object twice is undefined in both)
Beside == DefaultDeleter /\ UNCHANGED <<contractVars, resetVars>>

BothNext ==
    \/ \E h \in Handles, r \in Refs : Construct(h, r) /\ S_Construct(h, r) /\ Beside
    \/ \E h \in Handles : ConstructNull(h) /\ S_ConstructNull(h) /\ Beside
    \/ \E h \in Handles : Get(h) /\ S_Get(h) /\ Beside
    \/ \E h \in Handles : Release(h) /\ S_Release(h) /\ Beside
    \/ \E h \in Handles, r \in Ptrs :
          Unowned(r) /\ Reset(h, r) /\ S_Reset(h, r) /\ Beside
    \/ \E h \in Handles : Destroy(h) /\ S_Destroy(h) /\ Beside

SpecBoth == Init /\ [][BothNext]_vars

\* ---- properties ----

NoRefDeletedTwice == \A r \in Refs : delCalls[r] <= 1

NoLiveDangling == \A h \in Live : get(h) = nullptr \/ ~Destroyed(get(h))

\* the step is the destructor of h
IsDtor(h) == last'.op = "dtor" /\ last'.h = h /\ status[h] = "live" /\ status'[h] = "dead"

\* the step is h.release()
IsRelease(h) == last'.op = "release" /\ last'.h = h /\ status[h] = "live"

\* the step makes h call the deleter on r
DeletesBy(h, r) == last'.h = h /\ delCalls'[r] > delCalls[r]

\* C1 as stated: with constructors given fresh pointers and reset given any
\* non-null pointer, no non-null pointer is ever given to the deleter twice.
C1_AtMostOnceAnyReset == NoRefDeletedTwice

\* C1, amended: as long as every successful reset was given a pointer that no
\* live handle held and that had not been destroyed, the deleter has been
\* called at most once on every non-null pointer.
C1_AtMostOnce == resetArgsUnowned => NoRefDeletedTwice

C1_Witness ==
    /\ resetArgsUnowned
    /\ nResets >= 1
    /\ \A h \in Handles : status[h] = "dead"
    /\ \E r \in Refs : delCalls[r] = 1

\* C2 as stated: whatever non-null pointer reset is given, no live handle holds
\* a pointer the deleter has already been called on.
C2_NoDanglingAnyReset == NoLiveDangling

\* C2, amended: as long as every successful reset was given a pointer that no
\* live handle held and that had not been destroyed, every live handle holds
\* nullptr or a pointer the deleter has not been called on.
C2_NoDangling == resetArgsUnowned => NoLiveDangling

C2_Witness ==
    /\ resetArgsUnowned
    /\ last.op = "reset" /\ last.err = "none"
    /\ get(last.h) # nullptr /\ ~Destroyed(get(last.h))
    /\ \E r \in Refs : Destroyed(r)

\* C3: single ownership. With constructors and resets given pointers nobody
\* holds, after any moves, swaps, resets and releases at most one live handle
\* has get() = R, for every non-null R.
C3_SingleOwner == resetArgsUnowned => \A r \in Refs : Cardinality(Holders(r)) <= 1

C3_Witness ==
    /\ resetArgsUnowned
    /\ nResets >= 1
    /\ last.op \in {"swap", "move_assign"}
    /\ \E a \in Live, b \in Live :
          a # b /\ get(a) # nullptr /\ get(b) # nullptr /\ get(a) # get(b)

C5_Release ==
    [][\A h \in Handles :
          IsRelease(h) =>
              /\ last'.ret = ptr_resource[h]
              /\ ptr_resource'[h] = nullptr
              /\ delCalls' = delCalls
              /\ status' = status
              /\ \A o \in Handles \ {h} : ptr_resource'[o] = ptr_resource[o]]_vars

C5_Witness ==
    /\ last.op = "release" /\ last.ret # nullptr
    /\ status[last.h] = "live" /\ get(last.h) = nullptr
    /\ ~Destroyed(last.ret)

\* C6 as stated: once h.release() has returned R # nullptr, no later step makes
\* h call the deleter on R, whatever non-null pointers reset is given.
C6_NeverDeletesReleasedAnyReset ==
    [][\A pr \in relBy : ~DeletesBy(pr[1], pr[2])]_vars

\* C6, amended: once h.release() has returned R # nullptr, h does not call the
\* deleter on R, as long as every reset was given a pointer no live handle held
\* and not destroyed, and R has not been given to a reset again since.
C6_NeverDeletesReleased ==
    [][\A pr \in relBy :
          (resetArgsUnowned /\ pr[2] \notin regiven) => ~DeletesBy(pr[1], pr[2])]_vars

C6_Witness ==
    \E pr \in relBy :
        /\ resetArgsUnowned /\ pr[2] \notin regiven
        /\ last.op = "reset" /\ last.err = "none" /\ last.h = pr[1]
        /\ get(pr[1]) # nullptr /\ get(pr[1]) # pr[2]

\* C7 as stated: the destructor of an empty handle leaves the number of deleter
\* calls as it was.
C7_EmptyDtorNoCall ==
    [][\A h \in Handles :
          (IsDtor(h) /\ ptr_resource[h] = nullptr) => delCalls' = delCalls]_vars

\* C7, amended: the destructor of an empty handle calls the deleter once, with
\* nullptr, and calls it on no non-null pointer.
C7_EmptyDtorCallsOnNull ==
    [][\A h \in Handles :
          (IsDtor(h) /\ ptr_resource[h] = nullptr) =>
              delCalls' = [delCalls EXCEPT ![nullptr] = @ + 1]]_vars

C7_Witness ==
    /\ last.op = "dtor" /\ status[last.h] = "dead"
    /\ adopted # {}
    /\ delCalls[nullptr] >= 1
    /\ \A r \in Refs : delCalls[r] = 0

\* C8: reset(R2) with R2 # nullptr succeeds and leaves get() = R2; the deleter
\* is called once, on the pointer the handle held (R1, or nullptr if it was
\* empty) and on nothing else.
C8_Reset ==
    [][\A h \in Handles, r \in Refs :
          Reset(h, r) =>
              /\ last'.err = "none"
              /\ ptr_resource'[h] = r
              /\ delCalls' = [delCalls EXCEPT ![ptr_resource[h]] = @ + 1]]_vars

C8_Witness ==
    /\ last.op = "reset" /\ last.err = "none"
    /\ get(last.h) # nullptr
    /\ \E r \in Refs : r # get(last.h) /\ delCalls[r] = 1

\* C9: reset(nullptr) throws invalid_argument, leaves get() of every handle as
\* it was and calls no deleter.
C9_ResetNull ==
    [][\A h \in Handles :
          Reset(h, nullptr) =>
              /\ last'.err = "invalid_argument"
              /\ ptr_resource' = ptr_resource
              /\ delCalls' = delCalls
              /\ status' = status]_vars

C9_Witness ==
    /\ last.op = "reset" /\ last.err = "invalid_argument"
    /\ status[last.h] = "live" /\ get(last.h) # nullptr
    /\ ~Destroyed(get(last.h))

\* C10: after move-construction from other, the new handle's get() is what
\* other held, other is empty, and no deleter was called.
C10_MoveConstruct ==
    [][\A h \in Handles, o \in Handles :
          MoveConstruct(h, o) =>
              /\ ptr_resource'[h] = ptr_resource[o]
              /\ ptr_resource'[o] = nullptr
              /\ delCalls' = delCalls]_vars

C10_Witness ==
    /\ last.op = "move_ctor"
    /\ status[last.h] = "live" /\ get(last.h) # nullptr
    /\ \E o \in Live : o # last.h /\ get(o) = nullptr

\* the step adds a holder of r to the live handles that hold r, all of which
\* keep it
Duplicates(r) ==
    /\ Holders(r) # {}
    /\ Holders(r) \subseteq Holders(r)'
    /\ Holders(r)' # Holders(r)

\* C12: a.swap(b) exchanges the two pointers, calls no deleter, and changes no
\* other handle and no lifetime.
C12_Swap ==
    [][\A a \in Handles, b \in Handles :
          Swap(a, b) =>
              /\ ptr_resource'[a] = ptr_resource[b]
              /\ ptr_resource'[b] = ptr_resource[a]
              /\ delCalls' = delCalls
              /\ status' = status
              /\ \A o \in Handles \ {a, b} : ptr_resource'[o] = ptr_resource[o]]_vars

C12_Witness ==
    /\ last.op = "swap"
    /\ \E a \in Live, b \in Live :
          a # b /\ get(a) # get(b) /\ get(a) # nullptr /\ last.h = a
    /\ \A r \in Refs : ~Destroyed(r)

\* C13: after every step, operator bool of a live handle is true exactly when
\* get() is not nullptr; it is false after default and null construction, true
\* after construction from a pointer and after a successful reset, false after
\* release() and false for the source of a move-construction.
C13_Bool ==
    [][/\ \A h \in Handles :
             status'[h] = "live" => (operator_bool(h)' <=> get(h)' # nullptr)
       /\ \A h \in Handles :
             /\ (last'.h = h /\ last'.op \in {"ctor_null", "ctor_default"})
                    => ~operator_bool(h)'
             /\ (last'.h = h /\ last'.op = "ctor") => operator_bool(h)'
             /\ (last'.h = h /\ last'.op = "reset" /\ last'.err = "none")
                    => operator_bool(h)'
             /\ (last'.h = h /\ last'.op = "release") => ~operator_bool(h)'
       /\ \A h \in Handles, o \in Handles :
             MoveConstruct(h, o) => ~operator_bool(o)']_vars

C13_Witness ==
    /\ last.op = "release" /\ last.ret # nullptr
    /\ ~operator_bool(last.h)
    /\ \E g \in Live : operator_bool(g)

C16_SelfMoveSelfSwap ==
    [][\A h \in Handles :
          (MoveAssign(h, h) \/ Swap(h, h)) =>
              /\ ptr_resource' = ptr_resource
              /\ delCalls' = delCalls
              /\ status' = status]_vars

C16_Witness ==
    /\ last.op = "move_assign"
    /\ get(last.h) # nullptr
    /\ Cardinality(Live) = 1
    /\ \A p \in Ptrs : delCalls[p] = 0

\* ---- properties of SpecContract ----

\* the step is d = std::move(s) between two handles
IsMoveAssign(d, s) == d # s /\ MoveAssign(d, s)

\* the step is the destructor of h, one of the two handles of the move mv
IsDtorAfterMove(h) == mv.d # 0 /\ IsDtor(h)

\* C11 as stated: after h2 = std::move(h1) with h1 owning R, h2 holds R and h1
\* is empty; the destructor of h1 makes no deleter call, that of h2 one, on R.
C11_MoveAssignEmptiesSource ==
    [][/\ \A d \in Handles, s \in Handles :
             (IsMoveAssign(d, s) /\ ptr_resource[s] # nullptr) =>
                 /\ ptr_resource'[d] = ptr_resource[s]
                 /\ ptr_resource'[s] = nullptr
       /\ (mv.R # nullptr /\ IsDtorAfterMove(mv.s)) => delCalls' = delCalls
       /\ (mv.R # nullptr /\ IsDtorAfterMove(mv.d)) =>
             delCalls' = [delCalls EXCEPT ![mv.R] = @ + 1]]_vars

\* C11, amended: after h2 = std::move(h1) with h1 owning R, h2 holds R and h1
\* holds what h2 held (nullptr only if h2 was empty); no deleter is called by
\* the move; the destructor of h1 calls the deleter once, on what h2 held
\* (nullptr if it was empty) and not on R; the destructor of h2 calls it once,
\* on R, the only call on R there has been.
C11_MoveAssignExchanges ==
    [][/\ \A d \in Handles, s \in Handles :
             (IsMoveAssign(d, s) /\ ptr_resource[s] # nullptr) =>
                 /\ ptr_resource'[d] = ptr_resource[s]
                 /\ ptr_resource'[s] = ptr_resource[d]
                 /\ delCalls' = delCalls
       /\ (mv.R # nullptr /\ IsDtorAfterMove(mv.s)) =>
             /\ delCalls' = [delCalls EXCEPT ![mv.old] = @ + 1]
             /\ mv.old # mv.R
       /\ (mv.R # nullptr /\ IsDtorAfterMove(mv.d)) =>
             /\ delCalls' = [delCalls EXCEPT ![mv.R] = @ + 1]
             /\ delCalls'[mv.R] = 1]_vars

C11_Witness ==
    /\ mv.R # nullptr /\ mv.old # nullptr
    /\ status[mv.s] = "dead" /\ status[mv.d] = "live"
    /\ last.op = "dtor" /\ last.h = mv.s
    /\ get(mv.d) = mv.R
    /\ delCalls[mv.old] = 1 /\ delCalls[mv.R] = 0

\* C17: d = std::move(s) between two handles is an exchange: s gets what d held
\* (nullptr if d was empty), d gets what s held, and no deleter is called; what
\* d held, if not nullptr, is destroyed once, by the destructor of s.
C17_MoveIsExchange ==
    [][/\ \A d \in Handles, s \in Handles :
             IsMoveAssign(d, s) =>
                 /\ ptr_resource'[s] = ptr_resource[d]
                 /\ ptr_resource'[d] = ptr_resource[s]
                 /\ delCalls' = delCalls
       /\ \A h \in Handles, o \in Handles :
             MoveConstruct(h, o) =>
                 /\ ptr_resource'[o] = nullptr
                 /\ ptr_resource'[h] = ptr_resource[o]
       /\ (mv.old # nullptr /\ status[mv.s] = "live") => delCalls[mv.old] = 0
       /\ (mv.old # nullptr /\ IsDtorAfterMove(mv.s)) => delCalls'[mv.old] = 1]_vars

C17_Witness ==
    /\ mv.old # nullptr
    /\ status[mv.s] = "dead" /\ last.op = "dtor" /\ last.h = mv.s
    /\ delCalls[mv.old] = 1
    /\ \A p \in Ptrs \ {mv.old} : delCalls[p] = 0

\* C18: no leak. Once every handle that was constructed has been destroyed,
\* every pointer given to a constructor or a successful reset and never
\* returned by release() has been given to the deleter exactly once, and a
\* pointer still undestroyed is one release() returned.
C18_NoLeak ==
    (Live = {} /\ \E h \in Handles : status[h] = "dead") =>
        \A r \in adopted :
            /\ delCalls[r] <= 1
            /\ r \notin released => delCalls[r] = 1
            /\ delCalls[r] = 0 => r \in released

C18_Witness ==
    /\ \A h \in Handles : status[h] = "dead"
    /\ nResets >= 1
    /\ \E r \in adopted : r \in released /\ delCalls[r] = 0
    /\ \E r \in adopted : r \notin released /\ delCalls[r] = 1

\* ---- properties of SpecReset ----

\* C15: in reset(R2) on a handle holding R1 # nullptr, the deleter has been
\* called on R1 in every state from the call on, and the handle holds R1 until
\* it is cleared and R2 only once reset has returned: in no state does it hold
\* R2 with the call on R1 still to come.
C15_DeleteBeforeAdopt ==
    (rs.pc # "idle" /\ rs.old # nullptr) =>
        /\ delCalls[rs.old] = rs.cnt + 1
        /\ rs.pc = "deleted" => get(rs.h) = rs.old
        /\ rs.pc = "cleared" => get(rs.h) = nullptr
        /\ rs.pc = "done" => get(rs.h) = rs.arg

C15_Witness ==
    /\ rs.pc = "done"
    /\ rs.old # nullptr /\ rs.arg # rs.old
    /\ get(rs.h) = rs.arg
    /\ delCalls[rs.old] = 1 /\ ~Destroyed(rs.arg)

\* ---- properties of SpecBoth ----

\* C19: run side by side on the same operations and inputs, unique_ptr<T> and
\* unique_ptr<T, unique_ptr_deleter<T>> hold the same pointer in every live
\* handle after every step, have returned or thrown the same, and have deleted
\* the same objects in the same order.
C19_SameBehaviour ==
    /\ \A h \in Live : S_get(h) = get(h)
    /\ sout.ret = last.ret
    /\ sout.err = last.err
    /\ slog = glog

C19_Witness ==
    /\ last.op = "dtor"
    /\ nResets >= 1
    /\ Len(slog) >= 2 /\ slog[1] # slog[2]
    /\ slog = glog
====
